---- MODULE Spec2Model ----
(***************************************************************************)
(* A model of noteutil.NoteUtil (src/noteutil/noteutil.py): the per-line   *)
(* note parser, the heading resolver (_complete_headings) and the store    *)
(* mutations make_note/insert, delete and edit.                            *)
(*                                                                         *)
(* Strings are sequences of one-character strings, so that startswith,     *)
(* count, split, strip and slicing are computed as Python computes them.   *)
(* A note is a record; Python's None is NoneStr for a string attribute and *)
(* NoneInt for an integer attribute.  Positions in self.notes are 0-based  *)
(* in the source and 1-based in the sequences here: the note at list       *)
(* position p is notes[p + 1].                                             *)
(*                                                                         *)
(* notes and errors are self.notes and self.errors, saved tells whether    *)
(* __init__ has reached its self.save().  reader and detector are the      *)
(* frames of _read_notes and _detect_extensions where the scan of the       *)
(* document is followed step by step.                                      *)
(***************************************************************************)
EXTENDS Integers, Sequences, FiniteSets, TLC

VARIABLES notes, errors, saved, op, prev, reader, detector

vars == <<notes, errors, saved, op, prev, reader, detector>>

\* the frames of the generator _read_notes and of _detect_extensions
frames == <<reader, detector>>

\* no call of the kind is under way
NoFrame == [pc |-> "none"]

(***************************************************************************)
(* Bounds of the model.                                                    *)
(***************************************************************************)
MaxNotes == 4
MaxDrift == 1

(***************************************************************************)
(* None.                                                                   *)
(***************************************************************************)
NoneStr == <<"<None>">>
NoneInt == -1

(***************************************************************************)
(* The schema read by _read_config: the heading character and the number   *)
(* of levels (their names are taken to be distinct, so that level_order    *)
(* has one list per level), the separator, the category prefixes and the   *)
(* extension bounds.                                                       *)
(***************************************************************************)
heading_char == <<"#">>
levels == 2
separator == <<":", ":">>
category_prefixes == << <<"!">> >>
extension_bounds == << << <<"[">>, <<"]">> >> >>

(***************************************************************************)
(* Python string primitives on character sequences.                        *)
(***************************************************************************)
Min(a, b) == IF a < b THEN a ELSE b
Max(a, b) == IF a > b THEN a ELSE b

\* s[lo:] for 0 <= lo
From(s, lo) == SubSeq(s, lo + 1, Len(s))

\* s.startswith(p)
StartsWith(s, p) == Len(p) <= Len(s) /\ SubSeq(s, 1, Len(p)) = p

\* the 1-based places where p occurs in s at or after place lo
Occurrences(s, p, lo) ==
    {k \in lo..(Len(s) - Len(p) + 1) : SubSeq(s, k, k + Len(p) - 1) = p}

\* p in s
Contains(s, p) == Occurrences(s, p, 1) # {}

Least(S) == CHOOSE k \in S : \A j \in S : k <= j
Greatest(S) == CHOOSE k \in S : \A j \in S : j <= k

\* s.index(p, lo - 1) + 1, for p in s[lo - 1:]
IndexFrom(s, p, lo) == Least(Occurrences(s, p, lo))

IsSpace(c) == c \in {" ", "\t", "\n"}

RECURSIVE LStrip(_)
LStrip(s) == IF s # <<>> /\ IsSpace(s[1]) THEN LStrip(Tail(s)) ELSE s

RECURSIVE RStrip(_)
RStrip(s) ==
    IF s # <<>> /\ IsSpace(s[Len(s)]) THEN RStrip(SubSeq(s, 1, Len(s) - 1)) ELSE s

Strip(s) == RStrip(LStrip(s))

\* s.split(sep): the parts between the non-overlapping occurrences, left to right
RECURSIVE Split(_, _)
RECURSIVE SplitAt(_, _, _)
SplitAt(s, sep, k) ==
    <<SubSeq(s, 1, k - 1)>> \o Split(From(s, k - 1 + Len(sep)), sep)

Split(s, sep) ==
    IF Contains(s, sep) THEN SplitAt(s, sep, IndexFrom(s, sep, 1)) ELSE <<s>>

\* s.count(c, 0, hi) for a one-character c
CountChar(s, c, hi) == Cardinality({k \in 1..Min(hi, Len(s)) : <<s[k]>> = c})

\* the place list.insert(k, x) puts x at, negative and overlong k included
InsertPlace(list, k) == IF k < 0 THEN Max(0, Len(list) + k) ELSE Min(k, Len(list))

SpliceIn(list, at, x) == SubSeq(list, 1, at) \o <<x>> \o SubSeq(list, at + 1, Len(list))

\* list.insert(k, x)
PyInsert(list, k, x) == SpliceIn(list, InsertPlace(list, k), x)

\* the 0-based index a valid k stands for, -len <= k < len
PyIndex(list, k) == IF k < 0 THEN Len(list) + k ELSE k

CutOut(list, at) == SubSeq(list, 1, at) \o SubSeq(list, at + 2, Len(list))

\* del list[k] / list.pop(k)
PyRemove(list, k) == CutOut(list, PyIndex(list, k))

\* list[k]
PyItem(list, k) == list[PyIndex(list, k) + 1]

(***************************************************************************)
(* Notes (notes.Note).  The attributes a Note is constructed with are the  *)
(* keyword arguments _make_note collects.                                  *)
(***************************************************************************)
Note(content, nindex, kw) ==
    [content |-> content, nindex |-> nindex,
     level |-> kw.level, heading_name |-> kw.heading_name,
     begin_nindex |-> kw.begin_nindex, end_nindex |-> NoneInt,
     category_prefixes |-> kw.category_prefixes, extensions |-> kw.extensions,
     term |-> kw.term, definition |-> kw.definition]

\* kwargs = {}
NoKwargs ==
    [level |-> NoneInt, heading_name |-> NoneStr, begin_nindex |-> NoneInt,
     category_prefixes |-> <<>>, extensions |-> <<>>,
     term |-> NoneStr, definition |-> NoneStr]

IsHeading(n) == n.level # NoneInt
IsPair(n) == n.term # NoneStr

\* the 1-based places of the headings of ns, in store order
heading_order(ns) ==
    SelectSeq([k \in 1..Len(ns) |-> k], LAMBDA p : IsHeading(ns[p]))

\* the heading_order of one level: the value of level_order at that level's name
level_order(ns, lv) ==
    SelectSeq(heading_order(ns), LAMBDA p : ns[p].level = lv)

heading_names(ns) == {ns[p].heading_name : p \in {q \in 1..Len(ns) : IsHeading(ns[q])}}

pair_terms(ns) == {ns[p].term : p \in {q \in 1..Len(ns) : IsPair(ns[q])}}

(***************************************************************************)
(* The detection steps of _make_note.  Each returns the error it raises    *)
(* ("none" when it returns normally), the rewritten content and kwargs.    *)
(***************************************************************************)
Raised(e, content, kw) == [err |-> e, content |-> content, kw |-> kw]
Done(content, kw) == [err |-> "none", content |-> content, kw |-> kw]

\* self.heading_order[-1].level, 0 on IndexError
LastLevel(ns, ho) == IF ho = <<>> THEN 0 ELSE ns[ho[Len(ho)]].level

PreviousLevel(ns) == LastLevel(ns, heading_order(ns))

JumpTooFar(current_level, previous_level) == current_level - previous_level > 1

\* the heading whose marker is stripped: the name check and the kwargs
HeadingNamed(ns, content, nindex, kw, current_level, stripped) ==
    IF stripped \in heading_names(ns)
    THEN Raised("DuplicateHeading", content, kw)
    ELSE Done(stripped, [kw EXCEPT !.level = current_level,
                                   !.heading_name = stripped,
                                   !.begin_nindex = nindex + 1])

\* the heading whose level is counted: the jump check and the stripping
HeadingOfLevel(ns, content, nindex, kw, current_level) ==
    IF JumpTooFar(current_level, PreviousLevel(ns))
    THEN Raised("HeadingJump", content, kw)
    ELSE HeadingNamed(ns, content, nindex, kw, current_level,
                      LStrip(From(content, current_level * Len(heading_char))))

DetectHeadings(ns, lvls, content, nindex, kw) ==
    IF ~StartsWith(content, heading_char)
    THEN Done(content, kw)
    ELSE HeadingOfLevel(ns, content, nindex, kw, CountChar(content, heading_char, lvls))

RECURSIVE CategoryLoop(_, _, _)
CategoryLoop(content, kw, k) ==
    IF k > Len(category_prefixes)
    THEN Done(content, kw)
    ELSE IF StartsWith(content, category_prefixes[k])
    THEN CategoryLoop(LStrip(From(content, Len(category_prefixes[k]))),
                      [kw EXCEPT !.category_prefixes = Append(@, category_prefixes[k])],
                      k + 1)
    ELSE CategoryLoop(content, kw, k + 1)

DetectCategories(content, kw) == CategoryLoop(content, kw, 1)

\* The loops of _detect_extensions: ExtensionLoop is the for loop at bound pair
\* k, ExtensionWhile the while loop's test, ExtensionLeft its body once lindex
\* is known, ExtensionCut the body once rindex is known.
RECURSIVE ExtensionLoop(_, _, _)
RECURSIVE ExtensionWhile(_, _, _, _, _)
RECURSIVE ExtensionLeft(_, _, _, _, _, _)
RECURSIVE ExtensionCut(_, _, _, _, _, _, _)
\* ExtensionCut that rejoins the two sides without the space
ExtensionCut_NoSpace(content, kw, k, lbound, rbound, lindex, rindex) ==
    ExtensionWhile(
        Strip(SubSeq(content, 1, lindex - Len(lbound)))
            \o Strip(From(content, rindex + Len(rbound))),
        [kw EXCEPT !.extensions =
            Append(@, [text |-> Strip(SubSeq(content, lindex + 1, rindex)),
                       lbound |-> lbound, rbound |-> rbound])],
        k, lbound, rbound)

ExtensionCut(content, kw, k, lbound, rbound, lindex, rindex) ==
    ExtensionWhile(
        Strip(SubSeq(content, 1, lindex - Len(lbound)))
            \o <<" ">>
            \o Strip(From(content, rindex + Len(rbound))),
        [kw EXCEPT !.extensions =
            Append(@, [text |-> Strip(SubSeq(content, lindex + 1, rindex)),
                       lbound |-> lbound, rbound |-> rbound])],
        k, lbound, rbound)

ExtensionLeft(content, kw, k, lbound, rbound, lindex) ==
    IF Contains(From(content, lindex), rbound)
    THEN ExtensionCut(content, kw, k, lbound, rbound, lindex,
                      IndexFrom(content, rbound, lindex + 1) - 1)
    ELSE Raised("MissingBound", content, kw)

ExtensionWhile(content, kw, k, lbound, rbound) ==
    IF Contains(content, lbound)
    THEN ExtensionLeft(content, kw, k, lbound, rbound,
                       IndexFrom(content, lbound, 1) - 1 + Len(lbound))
    ELSE ExtensionLoop(content, kw, k + 1)

ExtensionLoop(content, kw, k) ==
    IF k > Len(extension_bounds)
    THEN Done(content, kw)
    ELSE ExtensionWhile(content, kw, k, extension_bounds[k][1], extension_bounds[k][2])

DetectExtensions(content, kw) == ExtensionLoop(content, kw, 1)

\* PairOf without the lookup of the term among the pairs of the store
PairOf_NoDuplicateCheck(ns, content, kw, parts) ==
    IF Len(parts) > 2
    THEN Raised("ExtraSeparator", content, kw)
    ELSE IF Strip(parts[2]) = <<>>
    THEN Raised("NoDefinition", content, kw)
    ELSE Done(content, [kw EXCEPT !.term = Strip(parts[1]),
                                  !.definition = Strip(parts[2])])

\* the checks on the split content
PairOf(ns, content, kw, parts) ==
    IF Len(parts) > 2
    THEN Raised("ExtraSeparator", content, kw)
    ELSE IF Strip(parts[1]) \in pair_terms(ns)
    THEN Raised("DuplicateTerm", content, kw)
    ELSE IF Strip(parts[2]) = <<>>
    THEN Raised("NoDefinition", content, kw)
    ELSE Done(content, [kw EXCEPT !.term = Strip(parts[1]),
                                  !.definition = Strip(parts[2])])

DetectPairs(ns, content, kw) ==
    IF Contains(content, separator)
    THEN PairOf(ns, content, kw, Split(content, separator))
    ELSE Done(content, kw)

\* the fix-up of heading_name after the content was rewritten
FixHeadingName(content, kw) ==
    IF kw.heading_name # NoneStr /\ kw.heading_name # <<>>
    THEN [kw EXCEPT !.heading_name = content]
    ELSE kw

\* _make_note: [err, note]; note is the Note made when err = "none".
\* NoteAfterHeadings .. NoteAfterPairs are _make_note from the step that
\* returned h, c, e, p on.
NoNote(e, content, nindex) == [err |-> e, note |-> Note(content, nindex, NoKwargs)]

NoteAfterPairs(content, nindex, p) ==
    IF p.err # "none" THEN NoNote(p.err, content, nindex)
    ELSE [err |-> "none",
          note |-> Note(p.content, nindex, FixHeadingName(p.content, p.kw))]

NoteAfterExtensions(ns, content, nindex, e) ==
    IF e.err # "none" THEN NoNote(e.err, content, nindex)
    ELSE NoteAfterPairs(content, nindex, DetectPairs(ns, e.content, e.kw))

NoteAfterCategories(ns, content, nindex, c) ==
    NoteAfterExtensions(ns, content, nindex, DetectExtensions(c.content, c.kw))

NoteAfterHeadings(ns, content, nindex, h) ==
    IF h.err # "none" THEN NoNote(h.err, content, nindex)
    ELSE NoteAfterCategories(ns, content, nindex, DetectCategories(h.content, h.kw))

_make_note(ns, lvls, content, nindex) ==
    NoteAfterHeadings(ns, content, nindex,
                      DetectHeadings(ns, lvls, content, nindex, NoKwargs))

ParseErrors ==
    {"HeadingJump", "DuplicateHeading", "MissingBound", "ExtraSeparator",
     "DuplicateTerm", "NoDefinition"}

(***************************************************************************)
(* The heading resolver, _complete_headings.                               *)
(***************************************************************************)
\* list.index(x): the 0-based index of place p in a list of places
IndexIn(list, p) == (CHOOSE k \in 1..Len(list) : list[k] = p) - 1

\* SkipDeeper without its loop: the heading right after h ends h's range
SkipDeeper_NoLoop(ns, ho, order_index, lvl) == order_index

\* the while loop: skip the headings of a deeper level
RECURSIVE SkipDeeper(_, _, _, _)
SkipDeeper(ns, ho, order_index, lvl) ==
    IF order_index # Len(ho) /\ ns[ho[order_index + 1]].level > lvl
    THEN SkipDeeper(ns, ho, order_index + 1, lvl)
    ELSE order_index

\* len(self.notes) when index ran off the list, else the nindex of list[index]
NindexAt(ns, list, index) ==
    IF index = Len(list) THEN Len(ns) ELSE ns[list[index + 1]].nindex

\* LevelNindex that stays at headings[i] itself
LevelNindex_SameHeading(ns, headings, i) == NindexAt(ns, headings, i)

\* level_nindex for headings[i]
LevelNindex(ns, headings, i) == NindexAt(ns, headings, i + 1)

\* order_nindex for the heading at place p
OrderNindex(ns, ho, p) ==
    NindexAt(ns, ho, SkipDeeper(ns, ho, IndexIn(ho, p) + 1, ns[p].level))

\* ChooseEnd with the comparison turned round: the larger boundary wins
ChooseEnd_Larger(level_nindex, order_nindex) ==
    IF level_nindex > order_nindex THEN level_nindex ELSE order_nindex

ChooseEnd(level_nindex, order_nindex) ==
    IF level_nindex < order_nindex THEN level_nindex ELSE order_nindex

\* the end_nindex the loops assign to the heading at place p, one of headings
EndNindexIn(ns, p, headings) ==
    ChooseEnd(LevelNindex(ns, headings, IndexIn(headings, p)),
              OrderNindex(ns, heading_order(ns), p))

EndNindex(ns, p) == EndNindexIn(ns, p, level_order(ns, ns[p].level))

_complete_headings(ns, lvls) ==
    [p \in 1..Len(ns) |->
        IF IsHeading(ns[p]) /\ ns[p].level \in 1..lvls
        THEN [ns[p] EXCEPT !.end_nindex = EndNindex(ns, p)]
        ELSE ns[p]]

(***************************************************************************)
(* The bulk parse, _make_notes, over the logical lines of the document.    *)
(***************************************************************************)
RECURSIVE MakeNotesLoop(_, _, _, _, _)
RECURSIVE MakeNotesStep(_, _, _, _, _, _)
\* MakeNotesStep that ends the scan at the first failing line
MakeNotesStep_StopAtError(doc, lvls, nindex, ns, errs, r) ==
    IF r.err = "none"
    THEN MakeNotesLoop(doc, lvls, nindex + 1, Append(ns, r.note), errs)
    ELSE [notes |-> ns, errors |-> Append(errs, r.err)]

\* the try statement, r the outcome of _make_note
MakeNotesStep(doc, lvls, nindex, ns, errs, r) ==
    IF r.err = "none"
    THEN MakeNotesLoop(doc, lvls, nindex + 1, Append(ns, r.note), errs)
    ELSE MakeNotesLoop(doc, lvls, nindex + 1, ns, Append(errs, r.err))

MakeNotesLoop(doc, lvls, nindex, ns, errs) ==
    IF nindex = Len(doc)
    THEN [notes |-> ns, errors |-> errs]
    ELSE MakeNotesStep(doc, lvls, nindex, ns, errs,
                       _make_note(ns, lvls, doc[nindex + 1], nindex))

CompleteParsed(r, lvls) ==
    [notes |-> _complete_headings(r.notes, lvls), errors |-> r.errors]

_make_notes(doc, lvls) == CompleteParsed(MakeNotesLoop(doc, lvls, 0, <<>>, <<>>), lvls)

(***************************************************************************)
(* Note.previous_heading and Note.next_heading.                            *)
(***************************************************************************)
GreatestOrNone(S) == IF S = {} THEN 0 ELSE Greatest(S)
LeastOrNone(S) == IF S = {} THEN 0 ELSE Least(S)

\* the place of the nearest heading before place at, 0 for None
PreviousHeading(ns, at) ==
    GreatestOrNone({p \in 1..Min(at - 1, Len(ns)) : IsHeading(ns[p])})

\* for a note made for nindex and not yet in the list: the place of the
\* first heading at or after list position nindex, 0 for None
NextHeading(ns, nindex) ==
    LeastOrNone({p \in Max(nindex + 1, 1)..Len(ns) : IsHeading(ns[p])})

(***************************************************************************)
(* insert, make_note, delete, edit.  Each returns the error raised ("none" *)
(* on a normal return) and the list self.notes it leaves.                  *)
(***************************************************************************)
NoteErrors == ParseErrors \cup {"NindexError"}

\* InsertIndexOK without the lower bound, as list.insert itself accepts
InsertIndexOK_NoLowerBound(nindex, n) == nindex <= n

InsertIndexOK(nindex, n) == 0 <= nindex /\ nindex <= n

DeleteIndexOK(nindex, n) == 0 <= nindex /\ nindex < n

\* ph.end_nindex += d, ph the place of a heading or 0 for None
BumpHeading(ns, ph, d) ==
    IF ph # 0 /\ ns[ph].end_nindex # NoneInt
    THEN [ns EXCEPT ![ph].end_nindex = @ + d]
    ELSE ns

\* previous_heading.end_nindex += d for the note at place at
BumpPreviousHeading(ns, at, d) == BumpHeading(ns, PreviousHeading(ns, at), d)

\* ShiftUp with the loop started at nindex: the inserted note is shifted too
ShiftUp_FromNindex(ns, nindex) ==
    [p \in 1..Len(ns) |->
        IF p - 1 >= nindex
        THEN IF IsHeading(ns[p])
             THEN [ns[p] EXCEPT !.nindex = @ + 1, !.begin_nindex = ns[p].nindex + 2]
             ELSE [ns[p] EXCEPT !.nindex = @ + 1]
        ELSE ns[p]]

\* for i in range(nindex + 1, len(self.notes)) of insert
ShiftUp(ns, nindex) ==
    [p \in 1..Len(ns) |->
        IF p - 1 >= nindex + 1
        THEN IF IsHeading(ns[p])
             THEN [ns[p] EXCEPT !.nindex = @ + 1, !.begin_nindex = ns[p].nindex + 2]
             ELSE [ns[p] EXCEPT !.nindex = @ + 1]
        ELSE ns[p]]

\* ShiftDown that leaves begin_nindex of the shifted headings alone
ShiftDown_KeepBegin(ns, nindex) ==
    [p \in 1..Len(ns) |->
        IF p - 1 >= nindex THEN [ns[p] EXCEPT !.nindex = @ - 1] ELSE ns[p]]

\* for i in range(nindex, len(self.notes)) of delete
ShiftDown(ns, nindex) ==
    [p \in 1..Len(ns) |->
        IF p - 1 >= nindex
        THEN IF IsHeading(ns[p])
             THEN [ns[p] EXCEPT !.nindex = @ - 1, !.begin_nindex = @ - 1]
             ELSE [ns[p] EXCEPT !.nindex = @ - 1]
        ELSE ns[p]]

\* insert that does not run the heading resolver again
insert_NoResolve(ns, lvls, note, nindex) ==
    IF ~InsertIndexOK(nindex, Len(ns))
    THEN [err |-> "NindexError", notes |-> ns]
    ELSE [err |-> "none",
          notes |-> ShiftUp(BumpPreviousHeading(PyInsert(ns, nindex, note),
                                                nindex + 1, 1),
                            nindex)]

insert(ns, lvls, note, nindex) ==
    IF ~InsertIndexOK(nindex, Len(ns))
    THEN [err |-> "NindexError", notes |-> ns]
    ELSE [err |-> "none",
          notes |-> _complete_headings(
                        ShiftUp(BumpPreviousHeading(PyInsert(ns, nindex, note),
                                                    nindex + 1, 1),
                                nindex),
                        lvls)]

\* note.end_nindex = nh.nindex if nh else len(self.notes), nh a place or 0
SetEndTo(ns, note, nh) ==
    [note EXCEPT !.end_nindex = IF nh # 0 THEN ns[nh].nindex ELSE Len(ns)]

\* note.end_nindex = note.next_heading.nindex if note.next_heading else len(self.notes)
\* The attribute is recorded for a heading only: on any other note nothing of
\* NoteUtil reads it again, and it stays None here.
SetEnd(ns, note, nindex) ==
    IF IsHeading(note) THEN SetEndTo(ns, note, NextHeading(ns, nindex)) ELSE note

\* make_note from the return of _make_note on, r its outcome
InsertMade(ns, lvls, nindex, r) ==
    IF r.err # "none"
    THEN [err |-> r.err, notes |-> ns]
    ELSE insert(ns, lvls, SetEnd(ns, r.note, nindex), nindex)

\* make_note that inserts the note whether or not the line parsed
InsertMadeAnyway(ns, lvls, nindex, r) ==
    [err |-> r.err, notes |-> insert(ns, lvls, SetEnd(ns, r.note, nindex), nindex).notes]

make_note_InsertAnyway(ns, lvls, content, nindex) ==
    InsertMadeAnyway(ns, lvls, nindex, _make_note(ns, lvls, content, nindex))

make_note(ns, lvls, content, nindex) ==
    InsertMade(ns, lvls, nindex, _make_note(ns, lvls, content, nindex))

delete(ns, lvls, nindex) ==
    IF ~DeleteIndexOK(nindex, Len(ns))
    THEN [err |-> "NindexError", notes |-> ns]
    ELSE [err |-> "none",
          notes |-> _complete_headings(
                        ShiftDown(PyRemove(BumpPreviousHeading(ns, nindex + 1, -1),
                                           nindex),
                                  nindex),
                        lvls)]

\* RestoreOld that puts the old note back at the end of the list
RestoreOld_AtEnd(popped, nindex, old_note) == Append(popped, old_note)

\* self.notes.insert(nindex, old_note) of the except clause
RestoreOld(popped, nindex, old_note) == PyInsert(popped, nindex, old_note)

\* the try statement of edit, r the outcome of make_note
EditMade(popped, nindex, old_note, r) ==
    IF r.err \in NoteErrors
    THEN [err |-> r.err, notes |-> RestoreOld(popped, nindex, old_note)]
    ELSE r

\* edit from the pop on
EditPopped(lvls, nindex, content, old_note, popped) ==
    EditMade(popped, nindex, old_note, make_note(popped, lvls, content, nindex))

edit(ns, lvls, nindex, content) ==
    IF ~(-Len(ns) <= nindex /\ nindex < Len(ns))
    THEN [err |-> "IndexError", notes |-> ns]
    ELSE EditPopped(lvls, nindex, Strip(content), PyItem(ns, nindex),
                    PyRemove(ns, nindex))

(***************************************************************************)
(* The lines the document and the callers supply.                          *)
(***************************************************************************)
StoreLines ==
    { <<"#", " ", "A">>,            \* heading of level 1
      <<"#", "D">>,                 \* heading of level 1
      <<"#", "#", "B">>,            \* heading of level 2
      <<"t", ":", ":", "d">>,       \* pair
      <<"u", ":", ":", " ", "v">> } \* pair
ErrorLines ==
    { <<"t", ":", ":">>,                      \* NoDefinition
      <<"a", ":", ":", "b", ":", ":", "c">>,  \* ExtraSeparator
      <<"[", "m">> }                          \* MissingBound
Lines == StoreLines \cup ErrorLines

Docs == UNION {[1..n -> StoreLines] : n \in 0..MaxNotes}

Op(name, i, content, err) == [name |-> name, i |-> i, content |-> content, err |-> err]

Idle == Op("idle", 0, <<>>, "none")

\* The exploration goes on from the stores whose nindex values increase along
\* the list, and edits those whose last nindex is less than MaxDrift ahead of
\* its list position.
Ordered(ns) == \A p \in 1..(Len(ns) - 1) : ns[p].nindex < ns[p + 1].nindex

Drift(ns) == IF ns = <<>> THEN 0 ELSE ns[Len(ns)].nindex - (Len(ns) - 1)

(***************************************************************************)
(* The state after __init__ returned normally: no line failed.  op is the  *)
(* call whose outcome the caller is looking at (the construction at        *)
(* first), prev the list self.notes was before that call.                  *)
(***************************************************************************)
Parsed(r) ==
    /\ r.errors = <<>> /\ notes = r.notes /\ errors = r.errors /\ saved = TRUE
    /\ reader = NoFrame /\ detector = NoFrame

Init ==
    /\ \E doc \in Docs : Parsed(_make_notes(doc, levels))
    /\ op = Op("init", 0, <<>>, "none")
    /\ prev = <<>>

\* the call leaves r.notes and the caller sees r.err
Outcome(name, i, content, r) ==
    /\ notes' = r.notes
    /\ op' = Op(name, i, content, r.err)

MakeNote(i, content) ==
    /\ op = Idle
    /\ Ordered(notes)
    /\ Len(notes) < MaxNotes
    /\ Outcome("insert", i, content, make_note(notes, levels, content, i))
    /\ prev' = notes
    /\ UNCHANGED <<errors, saved, frames>>

Delete(i) ==
    /\ op = Idle
    /\ Ordered(notes)
    /\ Outcome("delete", i, <<>>, delete(notes, levels, i))
    /\ prev' = notes
    /\ UNCHANGED <<errors, saved, frames>>

Edit(i, content) ==
    /\ op = Idle
    /\ Ordered(notes)
    /\ Drift(notes) < MaxDrift
    /\ Outcome("edit", i, content, edit(notes, levels, i, content))
    /\ prev' = notes
    /\ UNCHANGED <<errors, saved, frames>>

\* the caller deletes the note it has just inserted
Undo ==
    /\ op.name = "insert" /\ op.err = "none"
    /\ Outcome("undo", op.i, op.content, delete(notes, levels, op.i))
    /\ UNCHANGED <<errors, saved, prev, frames>>

\* the caller is done with the outcome of the call
Return ==
    /\ op # Idle
    /\ op' = Idle
    /\ prev' = <<>>
    /\ UNCHANGED <<notes, errors, saved, frames>>

Next ==
    \/ \E i \in -1..(Len(notes) + 1), content \in Lines : MakeNote(i, content)
    \/ \E i \in -1..Len(notes) : Delete(i)
    \/ \E i \in -1..Len(notes), content \in Lines : Edit(i, content)
    \/ Undo
    \/ Return

Spec == Init /\ [][Next]_vars

\* the store under make_note and delete alone
NextInsertDelete ==
    \/ \E i \in -1..(Len(notes) + 1), content \in Lines : MakeNote(i, content)
    \/ \E i \in -1..Len(notes) : Delete(i)
    \/ Undo
    \/ Return

SpecInsertDelete == Init /\ [][NextInsertDelete]_vars

(***************************************************************************)
(* Vocabulary of the properties.                                           *)
(***************************************************************************)
\* the call the caller is looking at has run to its end without an error
Succeeded(names) == op.name \in names /\ op.err = "none"

Headings(ns) == {p \in 1..Len(ns) : IsHeading(ns[p])}

\* the note at list position p has nindex p
Contiguous(ns) == \A p \in 1..Len(ns) : ns[p].nindex = p - 1

RangesInStore(ns) ==
    \A p \in Headings(ns) :
        /\ ns[p].begin_nindex = ns[p].nindex + 1
        /\ ns[p].begin_nindex <= ns[p].end_nindex
        /\ ns[p].end_nindex <= Len(ns)

\* what a note is, apart from where it is
Ident(n) ==
    [content |-> n.content, level |-> n.level, heading_name |-> n.heading_name,
     category_prefixes |-> n.category_prefixes, extensions |-> n.extensions,
     term |-> n.term, definition |-> n.definition]

\* a store as the initial parse and the mutations are meant to leave it
Consistent(ns) ==
    /\ Contiguous(ns)
    /\ \A p \in Headings(ns) : ns[p].begin_nindex = ns[p].nindex + 1
    /\ ns = _complete_headings(ns, levels)

(***************************************************************************)
(* C1: after the initial parse and after every successful insert, delete   *)
(* and edit, the note at list position p has nindex p.  Stated as: the     *)
(* initial parse leaves the nindex values contiguous and every successful  *)
(* operation on a contiguous store leaves them contiguous.  Refuted by     *)
(* edit, which pops the old note without renumbering and then inserts.     *)
(***************************************************************************)
C1_NindexContiguous ==
    /\ op.name = "init" => Contiguous(notes)
    /\ Succeeded({"insert", "delete", "edit"}) /\ Contiguous(prev) => Contiguous(notes)

(***************************************************************************)
(* C2: a successful edit(i, content) at a valid position of a consistent   *)
(* store leaves the store that delete(i) followed by make_note(content, i) *)
(* leaves.  Refuted: delete renumbers the notes after i, edit's pop does   *)
(* not.                                                                    *)
(***************************************************************************)
DeleteThenInsert(ns, i, content) ==
    make_note(delete(ns, levels, i).notes, levels, content, i)

C2_EditIsDeleteThenInsert ==
    Succeeded({"edit"}) /\ 0 <= op.i /\ op.i < Len(prev) /\ Consistent(prev)
        => /\ DeleteThenInsert(prev, op.i, op.content).err = "none"
           /\ notes = DeleteThenInsert(prev, op.i, op.content).notes

(***************************************************************************)
(* C3: an edit at a valid position whose new content fails to parse        *)
(* surfaces the line-parse error and leaves the store as it was before     *)
(* the call.                                                               *)
(***************************************************************************)
ValidEdit == op.name = "edit" /\ 0 <= op.i /\ op.i < Len(prev)

C3_FailedEditRestores ==
    ValidEdit /\ _make_note(PyRemove(prev, op.i), levels, Strip(op.content), op.i).err # "none"
        => /\ op.err \in ParseErrors
           /\ notes = prev

C3_Witness ==
    /\ ValidEdit /\ op.err \in ParseErrors
    /\ op.i < Len(prev) - 1
    /\ Headings(prev) # {}

(***************************************************************************)
(* C4: a make_note whose content fails to parse raises the line-parse      *)
(* error and leaves the store unchanged.                                   *)
(***************************************************************************)
C4_FailedInsertNoEffect ==
    op.name = "insert" /\ _make_note(prev, levels, op.content, op.i).err # "none"
        => /\ op.err = _make_note(prev, levels, op.content, op.i).err
           /\ op.err \in ParseErrors
           /\ notes = prev

C4_Witness ==
    /\ op.name = "insert" /\ op.err = "DuplicateTerm"
    /\ 0 <= op.i /\ op.i <= Len(prev)
    /\ Len(notes) = Len(prev) /\ Len(prev) >= 2

(***************************************************************************)
(* C5: an insert of a parsed note at a position outside 0..N and a delete  *)
(* at a position outside 0..N-1 raise NindexError and leave the store      *)
(* unchanged.                                                              *)
(***************************************************************************)
C5_IndexErrorNoEffect ==
    /\ op.name = "insert" /\ ~(0 <= op.i /\ op.i <= Len(prev))
          => /\ notes = prev
             /\ op.err # "none"
             /\ op.err \notin ParseErrors => op.err = "NindexError"
    /\ op.name = "delete" /\ ~(0 <= op.i /\ op.i < Len(prev))
          => /\ notes = prev
             /\ op.err = "NindexError"

C5_Witness ==
    /\ op.name = "insert" /\ op.err = "NindexError"
    /\ op.i < 0
    /\ Len(prev) >= 2 /\ Headings(prev) # {}

(***************************************************************************)
(* C6: a successful insert at position i puts the new note at nindex i,    *)
(* adds 1 to the nindex of every note that was at a position >= i, keeps   *)
(* the nindex of the notes before i and the order of the old notes, and    *)
(* leaves begin_nindex = nindex + 1 on the inserted and the shifted        *)
(* headings.                                                               *)
(***************************************************************************)
C6_InsertShifts ==
    Succeeded({"insert"}) =>
        /\ Len(notes) = Len(prev) + 1
        /\ notes[op.i + 1].nindex = op.i
        /\ \A p \in 1..op.i :
              /\ Ident(notes[p]) = Ident(prev[p])
              /\ notes[p].nindex = prev[p].nindex
              /\ notes[p].begin_nindex = prev[p].begin_nindex
        /\ \A p \in (op.i + 1)..Len(prev) :
              /\ Ident(notes[p + 1]) = Ident(prev[p])
              /\ notes[p + 1].nindex = prev[p].nindex + 1
        /\ \A p \in (op.i + 1)..Len(notes) :
              IsHeading(notes[p]) => notes[p].begin_nindex = notes[p].nindex + 1

C6_Witness ==
    /\ Succeeded({"insert"})
    /\ 0 < op.i /\ op.i < Len(prev)
    /\ IsHeading(notes[op.i + 1])
    /\ \E p \in (op.i + 2)..Len(notes) : IsHeading(notes[p])

(***************************************************************************)
(* C7: deleting at position i the note a successful insert has just put    *)
(* there gives back the consistent store the insert started from.          *)
(***************************************************************************)
C7_DeleteUndoesInsert ==
    op.name = "undo" /\ Consistent(prev) => op.err = "none" /\ notes = prev

C7_Witness ==
    /\ op.name = "undo" /\ op.err = "none" /\ Consistent(prev)
    /\ op.i < Len(prev)
    /\ \E p \in Headings(prev) : p - 1 < op.i
    /\ \E p \in Headings(prev) : p - 1 >= op.i

(***************************************************************************)
(* C8: in every state the initial parse and successful inserts, deletes    *)
(* and edits lead to, every heading has begin_nindex = nindex + 1 and      *)
(* begin_nindex <= end_nindex <= N.  Stated as: the parse establishes it   *)
(* and every successful operation keeps it.  Refuted by edit (see C1): the *)
(* notes after the edited one keep a nindex one too large, so a heading    *)
(* among them can begin past the end of the store.                         *)
(***************************************************************************)
C8_HeadingRangeInStore ==
    /\ op.name = "init" => RangesInStore(notes)
    /\ Succeeded({"insert", "delete", "edit"}) /\ RangesInStore(prev)
          => RangesInStore(notes)

(***************************************************************************)
(* C9: under the initial parse, make_note and delete, the ranges           *)
(* [begin_nindex, end_nindex) of two headings are disjoint or nested, and  *)
(* a deeper heading that lies in the range of a shallower one has its      *)
(* range inside it.                                                        *)
(***************************************************************************)
Inside(a, b) == b.begin_nindex <= a.begin_nindex /\ a.end_nindex <= b.end_nindex

Apart(a, b) == a.end_nindex <= b.begin_nindex \/ b.end_nindex <= a.begin_nindex

Owns(a, n) == a.begin_nindex <= n.nindex /\ n.nindex < a.end_nindex

C9_RangesNest ==
    \A p \in Headings(notes), q \in Headings(notes) :
        /\ Apart(notes[p], notes[q]) \/ Inside(notes[p], notes[q])
               \/ Inside(notes[q], notes[p])
        /\ notes[q].level > notes[p].level /\ Owns(notes[p], notes[q])
               => Inside(notes[q], notes[p])

C9_Witness ==
    /\ Succeeded({"insert", "delete"})
    /\ \E p \in Headings(notes), q \in Headings(notes), r \in Headings(notes) :
          /\ notes[q].level > notes[p].level /\ Owns(notes[p], notes[q])
          /\ notes[q].begin_nindex < notes[q].end_nindex
          /\ notes[r].nindex >= notes[p].end_nindex

(***************************************************************************)
(* C10: when the heading resolver has run (at the end of the initial       *)
(* parse and of every successful insert, delete and edit), every heading   *)
(* h has end_nindex = min(S, A): S the nindex of the next heading of h's   *)
(* level after h, A the nindex of the first heading after h of a level <=  *)
(* h's, each N when there is none.  The document # A / t::d / ##B /        *)
(* u:: v parses to A at nindex 0 with range 1..4 and B at nindex 2 with    *)
(* range 3..4.                                                             *)
(***************************************************************************)
FirstNindex(ns, places) ==
    IF places = {} THEN Len(ns)
    ELSE ns[CHOOSE p \in places : \A q \in places : p <= q].nindex

SiblingBoundary(ns, h) ==
    FirstNindex(ns, {p \in Headings(ns) : p > h /\ ns[p].level = ns[h].level})

AncestorBoundary(ns, h) ==
    FirstNindex(ns, {p \in Headings(ns) : p > h /\ ns[p].level <= ns[h].level})

ExampleDocument ==
    << <<"#", " ", "A">>, <<"t", ":", ":", "d">>,
       <<"#", "#", "B">>, <<"u", ":", ":", " ", "v">> >>

IsExample(ns) ==
    /\ Len(ns) = 4
    /\ ns[1].heading_name = <<"A">> /\ ns[1].level = 1
    /\ ns[2].term = <<"t">> /\ ns[2].definition = <<"d">>
    /\ ns[3].heading_name = <<"B">> /\ ns[3].level = 2
    /\ ns[4].term = <<"u">> /\ ns[4].definition = <<"v">>

C10_EndIsMinOfBoundaries ==
    /\ Succeeded({"init", "insert", "delete", "edit"}) =>
          \A h \in Headings(notes) :
              notes[h].end_nindex =
                  Min(SiblingBoundary(notes, h), AncestorBoundary(notes, h))
    /\ op.name = "init" /\ IsExample(notes) =>
          /\ notes[1].nindex = 0 /\ notes[1].begin_nindex = 1 /\ notes[1].end_nindex = 4
          /\ notes[3].nindex = 2 /\ notes[3].begin_nindex = 3 /\ notes[3].end_nindex = 4

C10_Witness ==
    /\ op.name = "init"
    /\ notes = _make_notes(ExampleDocument, levels).notes
    /\ IsExample(notes)

(***************************************************************************)
(* C11: in every state the initial parse and successful inserts, deletes   *)
(* and edits lead to, the level of each heading is at most 1 above the     *)
(* level of the heading before it in store order (0 before the first       *)
(* heading).  Stated as: the parse establishes it and every successful     *)
(* operation keeps it.  Refuted: _detect_headings compares the new level   *)
(* with the last heading of the store, not with the heading before the     *)
(* position of the insert, and delete compares nothing.                    *)
(***************************************************************************)
LevelBefore(ns, ho, k) == IF k = 1 THEN 0 ELSE ns[ho[k - 1]].level

StepsIn(ns, ho) ==
    \A k \in 1..Len(ho) : ns[ho[k]].level - LevelBefore(ns, ho, k) <= 1

LevelSteps(ns) == StepsIn(ns, heading_order(ns))

C11_LevelStepAtMostOne ==
    /\ op.name = "init" => LevelSteps(notes)
    /\ Succeeded({"insert", "delete", "edit"}) /\ LevelSteps(prev)
          => LevelSteps(notes)

(***************************************************************************)
(* The construction, __init__, from a document of at most MaxDoc logical   *)
(* lines under a schema of three levels, followed by one make_note on the  *)
(* store it leaves.  A construction with a failing line raises the         *)
(* aggregate NoteError before self.save().                                 *)
(***************************************************************************)
MaxDoc == 2

deep_levels == 3

ConstructLines ==
    { <<"#", "A">>,                 \* heading of level 1
      <<"#", "#", "B">>,            \* heading of level 2
      <<"#", "#", "#", "C">>,       \* heading of level 3
      <<"#", "x", "#", "y">>,       \* heading, a marker after its name begins
      <<"#", "!", "A">>,            \* heading of level 1 with a category
      <<":", ":", "d">>,            \* separator with nothing before it
      <<"t", ":", ":">>,            \* NoDefinition
      <<"[", "m">>,                 \* MissingBound
      <<"x", "[", "a", "]", "[", "b", "]">>,
      <<"A", "n", "s", "w", "e", "r", " ", "[", "t", "a", "g", ":", "i", "m",
        "p", "o", "r", "t", "a", "n", "t", "]", " ", "i", "s", " ", "4", "2">> }

ConstructDocs == UNION {[1..n -> ConstructLines] : n \in 0..MaxDoc}

New == Op("new", 0, <<>>, "none")

\* self.notes = [], self.errors = []
InitConstruct ==
    /\ notes = <<>>
    /\ errors = <<>>
    /\ saved = FALSE
    /\ reader = NoFrame /\ detector = NoFrame
    /\ op = New
    /\ prev = <<>>

\* __init__ from the return of _make_notes on, r its outcome
Constructed(doc, r) ==
    /\ notes' = r.notes
    /\ errors' = r.errors
    /\ saved' = (r.errors = <<>>)
    /\ op' = Op("init", 0, doc, IF r.errors # <<>> THEN "NoteError" ELSE "none")

Construct(doc) ==
    /\ op = New
    /\ Constructed(doc, _make_notes(doc, deep_levels))
    /\ UNCHANGED <<prev, frames>>

\* the first call on the store a construction has left
MakeNoteOnNew(i, content) ==
    /\ op.name = "init" /\ op.err = "none"
    /\ Outcome("insert", i, content, make_note(notes, deep_levels, content, i))
    /\ prev' = notes
    /\ UNCHANGED <<errors, saved, frames>>

NextConstruct ==
    \/ \E doc \in ConstructDocs : Construct(doc)
    \/ \E i \in -1..(Len(notes) + 1), content \in ConstructLines :
          MakeNoteOnNew(i, content)

SpecConstruct == InitConstruct /\ [][NextConstruct]_vars

(***************************************************************************)
(* C12: a make_note of a heading line at position i, where the nearest     *)
(* heading before position i is at least 2 levels shallower than the new   *)
(* heading, raises HeadingJump and leaves the store as it was, whatever    *)
(* headings there are at positions >= i.  Refuted: the level is compared   *)
(* with the last heading of the store (see C11), so a deeper heading after *)
(* position i lets the jump through.                                       *)
(***************************************************************************)
IsHeadingLine(content) == StartsWith(content, heading_char)

\* the level of the nearest heading before list position i, NoneInt for none
LevelBeforePosition(ns, ph) == IF ph = 0 THEN NoneInt ELSE ns[ph].level

JumpsAt(ns, i, content, lvls) ==
    /\ IsHeadingLine(content)
    /\ 0 <= i /\ i <= Len(ns)
    /\ PreviousHeading(ns, i + 1) # 0
    /\ CountChar(content, heading_char, lvls)
           - LevelBeforePosition(ns, PreviousHeading(ns, i + 1)) >= 2

C12_JumpRejected ==
    op.name = "insert" /\ JumpsAt(prev, op.i, op.content, deep_levels)
        => op.err = "HeadingJump" /\ notes = prev

(***************************************************************************)
(* C13: in every state a successful construction and successful calls lead *)
(* to, the heading_name values of the headings are pairwise distinct,      *)
(* heading_name being the name left after the category prefixes and the    *)
(* extensions are stripped.  Stated as: a successful construction          *)
(* establishes it and a successful make_note keeps it.  Refuted:           *)
(* _detect_headings looks the name up before _detect_categories and        *)
(* _detect_extensions strip it, and _make_note then rebinds heading_name   *)
(* to the stripped content.                                                *)
(***************************************************************************)
DistinctNames(ns) ==
    \A p \in Headings(ns), q \in Headings(ns) :
        p # q => ns[p].heading_name # ns[q].heading_name

C13_HeadingNamesDistinct ==
    /\ op.name = "init" /\ op.err = "none" => DistinctNames(notes)
    /\ Succeeded({"insert"}) /\ DistinctNames(prev) => DistinctNames(notes)

(***************************************************************************)
(* C14: in every state the initial parse and the calls lead to, the term   *)
(* values of the pairs are pairwise distinct; an edit of a pair whose new  *)
(* content has the term of the note it replaces is not refused as a        *)
(* DuplicateTerm.                                                          *)
(***************************************************************************)
Pairs(ns) == {p \in 1..Len(ns) : IsPair(ns[p])}

DistinctTerms(ns) ==
    \A p \in Pairs(ns), q \in Pairs(ns) : p # q => ns[p].term # ns[q].term

\* the term the line content has when it is parsed on its own
TermOf(content) == _make_note(<<>>, levels, Strip(content), 0).note.term

KeepsTerm ==
    /\ ValidEdit
    /\ IsPair(prev[op.i + 1])
    /\ TermOf(op.content) = prev[op.i + 1].term

C14_TermsDistinct ==
    /\ DistinctTerms(notes)
    /\ KeepsTerm => op.err # "DuplicateTerm"

C14_Witness ==
    /\ KeepsTerm /\ op.err = "none"
    /\ notes[op.i + 1].term = prev[op.i + 1].term
    /\ \E p \in Pairs(notes) : p # op.i + 1

(***************************************************************************)
(* C15: in the bulk parse of __init__ a failing line does not stop the     *)
(* scan.  Every logical line is attempted against the notes made from the  *)
(* lines before it: it leaves either a note carrying its line number or    *)
(* one error, the errors are in document order, and the construction       *)
(* raises the aggregate NoteError, without saving, exactly when there is   *)
(* an error.                                                               *)
(***************************************************************************)
\* the notes made from the lines before line k (k counted from 1)
MadeBefore(ns, k) == SelectSeq(ns, LAMBDA n : n.nindex < k - 1)

\* the error line k raises when its turn comes, "none" when it parses
LineError(ns, doc, k) ==
    _make_note(MadeBefore(ns, k), deep_levels, doc[k], k - 1).err

FailingLines(ns, doc) ==
    SelectSeq([k \in 1..Len(doc) |-> k], LAMBDA k : LineError(ns, doc, k) # "none")

ErrorsInOrder(ns, doc, failing) ==
    [j \in 1..Len(failing) |-> LineError(ns, doc, failing[j])]

C15_BulkParseCollectsErrors ==
    op.name = "init" =>
        /\ Len(notes) + Len(errors) = Len(op.content)
        /\ \A k \in 1..Len(op.content) :
               (LineError(notes, op.content, k) = "none")
                   <=> (\E p \in 1..Len(notes) : notes[p].nindex = k - 1)
        /\ Ordered(notes)
        /\ errors = ErrorsInOrder(notes, op.content, FailingLines(notes, op.content))
        /\ (op.err = "NoteError") <=> (errors # <<>>)
        /\ (op.err = "none") <=> (errors = <<>>)
        /\ saved <=> (errors = <<>>)

C15_Witness ==
    /\ op.name = "init" /\ op.err = "NoteError" /\ ~saved
    /\ Len(op.content) = 2
    /\ Len(errors) = 1
    /\ Len(notes) = 1 /\ notes[1].nindex = 1

(***************************************************************************)
(* C16: a line that holds the separator exactly once and whose stripped    *)
(* term (the text before the separator) or stripped definition (the text   *)
(* after it) is empty fails with NoDefinition, and no pair with an empty   *)
(* term or an empty definition is in the store.  Refuted: _detect_pairs    *)
(* tests the definition only, so a line that begins with the separator     *)
(* becomes a pair whose term is empty.                                     *)
(***************************************************************************)
OneSeparator(content) == Len(Split(content, separator)) = 2

EmptySide(parts) == Strip(parts[1]) = <<>> \/ Strip(parts[2]) = <<>>

LacksSide(content) ==
    OneSeparator(content) /\ EmptySide(Split(content, separator))

C16_EmptyTermOrDefinitionRejected ==
    /\ \A p \in Pairs(notes) : notes[p].term # <<>> /\ notes[p].definition # <<>>
    /\ op.name = "init" =>
          \A k \in 1..Len(op.content) :
              LacksSide(op.content[k])
                  => LineError(notes, op.content, k) = "NoDefinition"

(***************************************************************************)
(* The queries get, get_list, iget and iget_list.  A call passes criteria  *)
(* (for each attribute the set of the value asked for, empty when the      *)
(* attribute is not among the keyword arguments) and possibly a compare of *)
(* its own.  A result is None or a value.                                  *)
(***************************************************************************)
None == [none |-> TRUE, value |-> <<>>]
Some(v) == [none |-> FALSE, value |-> v]

Criteria(level, heading_name, term) ==
    [level |-> level, heading_name |-> heading_name, term |-> term]

Query(compare, criteria) == [compare |-> compare, criteria |-> criteria]

\* CompareOptions.EQUALS: every attribute asked for has the value asked for
EQUALS(note, criteria) ==
    /\ criteria.level \subseteq {note.level}
    /\ criteria.heading_name \subseteq {note.heading_name}
    /\ criteria.term \subseteq {note.term}

\* a compare of the caller's: the note is a heading deeper than the level asked for
Deeper(note, criteria) == \A lv \in criteria.level : note.level > lv

\* compare(note, **kwargs) after the pop of "compare"
Compare(note, q) ==
    IF q.compare = "default" THEN EQUALS(note, q.criteria) ELSE Deeper(note, q.criteria)

\* not kwargs
NoKeywords(q) ==
    /\ q.compare = "default"
    /\ q.criteria.level = {} /\ q.criteria.heading_name = {} /\ q.criteria.term = {}

RECURSIVE GetLoop(_, _, _)
GetLoop(ns, q, k) ==
    IF k > Len(ns) THEN None
    ELSE IF Compare(ns[k], q) THEN Some(ns[k])
    ELSE GetLoop(ns, q, k + 1)

get(ns, q) == IF NoKeywords(q) THEN None ELSE GetLoop(ns, q, 1)

\* notes if notes else None
ListOrNone(found) == IF found = <<>> THEN None ELSE Some(found)

RECURSIVE GetListLoop(_, _, _, _)
GetListLoop(ns, q, k, found) ==
    IF k > Len(ns) THEN found
    ELSE IF Compare(ns[k], q) THEN GetListLoop(ns, q, k + 1, Append(found, ns[k]))
    ELSE GetListLoop(ns, q, k + 1, found)

get_list(ns, q) ==
    IF NoKeywords(q) THEN None ELSE ListOrNone(GetListLoop(ns, q, 1, <<>>))

RECURSIVE IGetLoop(_, _, _)
IGetLoop(ns, q, k) ==
    IF k > Len(ns) THEN None
    ELSE IF ~Compare(ns[k], q) THEN Some(ns[k])
    ELSE IGetLoop(ns, q, k + 1)

iget(ns, q) == IF NoKeywords(q) THEN None ELSE IGetLoop(ns, q, 1)

RECURSIVE IGetListLoop(_, _, _, _)
IGetListLoop(ns, q, k, found) ==
    IF k > Len(ns) THEN found
    ELSE IF ~Compare(ns[k], q) THEN IGetListLoop(ns, q, k + 1, Append(found, ns[k]))
    ELSE IGetListLoop(ns, q, k + 1, found)

\* iget_list that keeps the notes the compare accepts
iget_list_NotInverted(ns, q) == get_list(ns, q)

iget_list(ns, q) ==
    IF NoKeywords(q) THEN None ELSE ListOrNone(IGetListLoop(ns, q, 1, <<>>))

Queries ==
    {Query("default", c) :
        c \in {Criteria({}, {}, {}),
               Criteria({1}, {}, {}),
               Criteria({NoneInt}, {}, {}),
               Criteria({}, {}, {<<"t">>}),
               Criteria({2}, {<<"B">>}, {})}}
    \cup {Query("custom", c) : c \in {Criteria({}, {}, {}), Criteria({1}, {}, {})}}

\* the caller sees the result; the store is not written
Answered(name, q, result) ==
    /\ op' = Op(name, 0, [query |-> q, result |-> result], "none")
    /\ prev' = notes
    /\ UNCHANGED <<notes, errors, saved, frames>>

\* the queries, on the store the construction has left
Get(q) ==
    /\ op.name = "init"
    /\ Answered("get", q, get(notes, q))

GetList(q) ==
    /\ op.name = "init"
    /\ Answered("get_list", q, get_list(notes, q))

IGet(q) ==
    /\ op.name = "init"
    /\ Answered("iget", q, iget(notes, q))

IGetList(q) ==
    /\ op.name = "init"
    /\ Answered("iget_list", q, iget_list(notes, q))

NextQuery ==
    \/ \E q \in Queries : Get(q)
    \/ \E q \in Queries : GetList(q)
    \/ \E q \in Queries : IGet(q)
    \/ \E q \in Queries : IGetList(q)

SpecQuery == Init /\ [][NextQuery]_vars

(***************************************************************************)
(* C17: for a call with keyword arguments and the predicate p they stand   *)
(* for, get_list returns the notes with p true in store order, get the     *)
(* first of them, iget_list the notes with p false in store order, iget    *)
(* the first of them, each None when there is no such note; the two lists  *)
(* split the store, and no query changes the store.                        *)
(***************************************************************************)
Accepted(ns, q) == SelectSeq(ns, LAMBDA n : Compare(n, q))
Refused(ns, q) == SelectSeq(ns, LAMBDA n : ~Compare(n, q))

AllOf(list) == IF list = <<>> THEN None ELSE Some(list)
FirstOf(list) == IF list = <<>> THEN None ELSE Some(list[1])

IsQuery == op.name \in {"get", "get_list", "iget", "iget_list"}

C17_QueriesFilterInOrder ==
    IsQuery /\ ~NoKeywords(op.content.query) =>
        /\ notes = prev
        /\ op.name = "get_list" =>
              op.content.result = AllOf(Accepted(prev, op.content.query))
        /\ op.name = "get" =>
              op.content.result = FirstOf(Accepted(prev, op.content.query))
        /\ op.name = "iget_list" =>
              op.content.result = AllOf(Refused(prev, op.content.query))
        /\ op.name = "iget" =>
              op.content.result = FirstOf(Refused(prev, op.content.query))
        /\ Len(Accepted(prev, op.content.query))
               + Len(Refused(prev, op.content.query)) = Len(prev)
        /\ \A p \in 1..Len(prev) :
              (\E k \in 1..Len(Accepted(prev, op.content.query)) :
                    Accepted(prev, op.content.query)[k] = prev[p])
                  <=> ~(\E k \in 1..Len(Refused(prev, op.content.query)) :
                          Refused(prev, op.content.query)[k] = prev[p])

C17_Witness ==
    /\ op.name = "iget_list" /\ ~NoKeywords(op.content.query)
    /\ ~op.content.result.none
    /\ Len(op.content.result.value) >= 2
    /\ Len(op.content.result.value) < Len(prev)
    /\ op.content.result.value[1] # prev[1]

(***************************************************************************)
(* C18: extension detection, seen on the lines that reach it unchanged     *)
(* and are not pairs.  A line with a left bound that no right bound        *)
(* follows fails with MissingBound.  Any other line leaves a note whose    *)
(* content holds no left bound and whose extensions are, each, the         *)
(* stripped text between a left bound of the line and the first right      *)
(* bound after it; for a line with one span the content is the stripped    *)
(* text before the span, one space, and the stripped text after it.  The   *)
(* line Answer [tag:important] is 42 gives the content Answer is 42 and    *)
(* the one extension tag:important.                                        *)
(***************************************************************************)
left_bound == extension_bounds[1][1]
right_bound == extension_bounds[1][2]

Plain(line) ==
    /\ ~IsHeadingLine(line)
    /\ \A k \in 1..Len(category_prefixes) : ~StartsWith(line, category_prefixes[k])
    /\ ~Contains(line, separator)

\* some left bound of the line has no right bound after it
Unmatched(line) ==
    \E a \in Occurrences(line, left_bound, 1) :
        Occurrences(line, right_bound, a + Len(left_bound)) = {}

\* the text of the span that opens at place a of the line
SpanText(line, a) ==
    Strip(SubSeq(line, a + Len(left_bound), IndexFrom(line, right_bound, a + Len(left_bound)) - 1))

\* the line without the span that opens at place a, rejoined
WithoutSpan(line, a) ==
    Strip(SubSeq(line, 1, a - 1))
        \o <<" ">>
        \o Strip(From(line, IndexFrom(line, right_bound, a + Len(left_bound)) - 1 + Len(right_bound)))

\* the note made from line k of the document
NoteOfLine(ns, k) == ns[CHOOSE p \in 1..Len(ns) : ns[p].nindex = k - 1]

ExampleLine ==
    <<"A", "n", "s", "w", "e", "r", " ", "[", "t", "a", "g", ":", "i", "m",
      "p", "o", "r", "t", "a", "n", "t", "]", " ", "i", "s", " ", "4", "2">>

ExampleContent == <<"A", "n", "s", "w", "e", "r", " ", "i", "s", " ", "4", "2">>

ExampleText == <<"t", "a", "g", ":", "i", "m", "p", "o", "r", "t", "a", "n", "t">>

ExtensionsAsClaimed(line, n) ==
    /\ ~Contains(n.content, left_bound)
    /\ Contains(line, left_bound) => n.extensions # <<>>
    /\ \A j \in 1..Len(n.extensions) :
          /\ ~Contains(n.extensions[j].text, right_bound)
          /\ \E a \in Occurrences(line, left_bound, 1) :
                n.extensions[j].text = SpanText(line, a)
    /\ \A a \in Occurrences(line, left_bound, 1) :
          Occurrences(line, left_bound, 1) = {a} =>
              /\ n.content = WithoutSpan(line, a)
              /\ Len(n.extensions) = 1
              /\ n.extensions[1].text = SpanText(line, a)
    /\ line = ExampleLine =>
          /\ n.content = ExampleContent
          /\ Len(n.extensions) = 1
          /\ n.extensions[1].text = ExampleText

C18_ExtensionsExtracted ==
    op.name = "init" =>
        \A k \in 1..Len(op.content) :
            Plain(op.content[k]) =>
                IF Unmatched(op.content[k])
                THEN LineError(notes, op.content, k) = "MissingBound"
                ELSE /\ LineError(notes, op.content, k) = "none"
                     /\ ExtensionsAsClaimed(op.content[k], NoteOfLine(notes, k))

C18_Witness ==
    /\ op.name = "init" /\ Len(op.content) = 2
    /\ op.content[1] = <<"[", "m">>
    /\ op.content[2] = ExampleLine
    /\ errors = <<"MissingBound">>
    /\ Len(notes) = 1 /\ notes[1].content = ExampleContent

(***************************************************************************)
(* C19: after a successful insert of a note that is no heading at position *)
(* i of a consistent store, a heading that was before position i with      *)
(* end_nindex >= i has end_nindex one larger and its begin_nindex as       *)
(* before, a heading that was at a position >= i has begin_nindex and      *)
(* end_nindex one larger, and a heading with end_nindex < i has its range  *)
(* as before.                                                              *)
(***************************************************************************)
\* the place after the insert at position i of the note that was at place p
PlaceAfterInsert(p, i) == IF p - 1 < i THEN p ELSE p + 1

Grown(old, new, by_begin, by_end) ==
    /\ new.begin_nindex = old.begin_nindex + by_begin
    /\ new.end_nindex = old.end_nindex + by_end

PlainInsert ==
    /\ Succeeded({"insert"})
    /\ Consistent(prev)
    /\ ~IsHeading(notes[op.i + 1])

Enclosing(ns, i) == {p \in Headings(ns) : p - 1 < i /\ ns[p].end_nindex >= i}
Following(ns, i) == {p \in Headings(ns) : p - 1 >= i}
Closed(ns, i) == {p \in Headings(ns) : ns[p].end_nindex < i}

C19_InsertGrowsRanges ==
    PlainInsert =>
        /\ \A p \in Enclosing(prev, op.i) :
              Grown(prev[p], notes[PlaceAfterInsert(p, op.i)], 0, 1)
        /\ \A p \in Following(prev, op.i) :
              Grown(prev[p], notes[PlaceAfterInsert(p, op.i)], 1, 1)
        /\ \A p \in Closed(prev, op.i) :
              Grown(prev[p], notes[PlaceAfterInsert(p, op.i)], 0, 0)

C19_Witness ==
    /\ PlainInsert
    /\ Enclosing(prev, op.i) # {}
    /\ Following(prev, op.i) # {}
    /\ Closed(prev, op.i) # {}

(***************************************************************************)
(* C20: a line that starts with the heading marker and parses gets as its  *)
(* level the number of marker characters in a row at its start, at most    *)
(* the number of levels, and its name is what follows that many            *)
(* characters.  Refuted: _detect_headings counts every marker among the    *)
(* first `levels` characters of the line, in a row or not.                 *)
(***************************************************************************)
\* the number of heading markers in a row at the start of the line
LeadingMarkers(line) ==
    Cardinality({k \in 1..Len(line) : \A j \in 1..k : <<line[j]>> = heading_char})

LevelAsClaimed(line, n, lvls) ==
    /\ n.level = Min(LeadingMarkers(line), lvls)
    /\ 1 <= n.level /\ n.level <= lvls
    /\ n.category_prefixes = <<>> /\ n.extensions = <<>>
          => n.heading_name = LStrip(From(line, Min(LeadingMarkers(line), lvls)))

C20_LevelIsLeadingMarkers ==
    op.name = "init" =>
        \A k \in 1..Len(op.content) :
            IsHeadingLine(op.content[k]) /\ LineError(notes, op.content, k) = "none"
                => LevelAsClaimed(op.content[k], NoteOfLine(notes, k), deep_levels)

(***************************************************************************)
(* The scan of the document, step by step: the generator _read_notes and,  *)
(* on each logical line it yields, the while loop of _detect_extensions    *)
(* for one pair of bounds.  The document is the text _parse_notes wrote:   *)
(* at most MaxRaw raw lines, each ended by a line break.                   *)
(***************************************************************************)
MaxRaw == 3

blocks == <<"%">>

newline == <<"\n">>

RawLines ==
    { <<"a">>,
      <<"%", "a">>,                 \* opens a block
      <<" ", "%", "a">>,            \* opens a block after a blank
      <<"b", "%">>,                 \* closes a block
      <<"b", "%", " ">>,            \* closes a block before a blank
      <<"x", "[", "e", "]", "y">>,
      <<"[", "m">>,
      <<"|", "e", "|", "f", "|">> }

RawDocs == UNION {[1..n -> RawLines] : n \in 1..MaxRaw}

\* the pairs of bounds the schema may hold
BoundPairs == { << <<"[">>, <<"]">> >>, << <<"|">>, <<"|">> >> }

\* the text of the .nu file: raw_notes += line
RECURSIVE Text(_)
Text(doc) == IF doc = <<>> THEN <<>> ELSE Head(doc) \o newline \o Text(Tail(doc))

EndsWith(s, p) == Len(p) <= Len(s) /\ SubSeq(s, Len(s) - Len(p) + 1, Len(s)) = p

\* s[:-n] for n > 0
DropLast(s, n) == SubSeq(s, 1, Max(0, Len(s) - n))

\* lines = f.read().split("\n"); index = 0
ReaderAt(text) ==
    [pc |-> "while", lines |-> Split(text, newline), index |-> 0,
     line |-> <<>>, yielded |-> <<>>]

DetectorFor(bounds) ==
    [pc |-> "idle", bounds |-> bounds, content |-> <<>>, extensions |-> <<>>,
     results |-> <<>>]

InitRead ==
    /\ notes = <<>> /\ errors = <<>> /\ saved = FALSE
    /\ op = Op("new", 0, <<>>, "none") /\ prev = <<>>
    /\ \E doc \in RawDocs : reader = ReaderAt(Text(doc))
    /\ \E bounds \in BoundPairs : detector = DetectorFor(bounds)

\* the line the outer while loop is at
RawAt(r) == r.lines[r.index + 1]

\* line = lines[index], and the opening of a block
Opened(r, line) ==
    IF StartsWith(Strip(line), blocks)
    THEN [r EXCEPT !.line = From(line, Len(blocks)), !.index = @ + 1, !.pc = "absorb"]
    ELSE [r EXCEPT !.line = line, !.pc = "emit"]

ReadLine ==
    /\ reader.pc = "while" /\ reader.index < Len(reader.lines)
    /\ reader' = Opened(reader, RawAt(reader))
    /\ UNCHANGED <<notes, errors, saved, op, prev, detector>>

\* the inner while loop once, raw the line it absorbs
Absorbed(r, raw) ==
    IF EndsWith(Strip(raw), blocks)
    THEN [r EXCEPT !.line = DropLast(r.line \o newline \o raw, Len(blocks)),
                   !.pc = "emit"]
    ELSE [r EXCEPT !.line = r.line \o newline \o raw, !.index = @ + 1]

\* Unclosed that never leaves the inner loop
Unclosed_Stay(r) == r

\* the inner while loop left at the end of the document
Unclosed(r) == [r EXCEPT !.line = DropLast(r.line, Len(blocks)), !.pc = "emit"]

Absorb ==
    /\ reader.pc = "absorb"
    /\ reader' = IF reader.index < Len(reader.lines)
                 THEN Absorbed(reader, RawAt(reader))
                 ELSE Unclosed(reader)
    /\ UNCHANGED <<notes, errors, saved, op, prev, detector>>

\* if line != "": yield line.strip(), and _detect_extensions is entered on it
Yield ==
    /\ reader.pc = "emit" /\ reader.line # <<>>
    /\ reader' = [reader EXCEPT !.yielded = Append(@, Strip(reader.line)),
                                !.pc = "yielded"]
    /\ detector' = [detector EXCEPT !.pc = "while",
                                    !.content = Strip(reader.line),
                                    !.extensions = <<>>]
    /\ UNCHANGED <<notes, errors, saved, op, prev>>

\* the empty line: index += 1
Skip ==
    /\ reader.pc = "emit" /\ reader.line = <<>>
    /\ reader' = [reader EXCEPT !.index = @ + 1, !.pc = "while"]
    /\ UNCHANGED <<notes, errors, saved, op, prev, detector>>

\* the content without the span between lindex and rindex
CutSpan(content, lbound, rbound, lindex, rindex) ==
    Strip(SubSeq(content, 1, lindex - Len(lbound)))
        \o <<" ">>
        \o Strip(From(content, rindex + Len(rbound)))

\* the body of the while loop once rindex is known
SpanCut(d, lbound, rbound, lindex, rindex) ==
    [d EXCEPT !.content = CutSpan(d.content, lbound, rbound, lindex, rindex),
              !.extensions = Append(@, Strip(SubSeq(d.content, lindex + 1, rindex)))]

\* the body of the while loop once lindex is known
SpanSought(d, lbound, rbound, lindex) ==
    IF Contains(From(d.content, lindex), rbound)
    THEN SpanCut(d, lbound, rbound, lindex, IndexFrom(d.content, rbound, lindex + 1) - 1)
    ELSE [d EXCEPT !.pc = "raised"]

\* the test of the while loop and one turn of it
Detected(d, lbound, rbound) ==
    IF Contains(d.content, lbound)
    THEN SpanSought(d, lbound, rbound, IndexFrom(d.content, lbound, 1) - 1 + Len(lbound))
    ELSE [d EXCEPT !.pc = "done"]

Detect ==
    /\ detector.pc = "while"
    /\ detector' = Detected(detector, detector.bounds[1], detector.bounds[2])
    /\ UNCHANGED <<notes, errors, saved, op, prev, reader>>

\* the line is dealt with (a raised error is caught by _make_notes) and the
\* generator is resumed: index += 1
Resume ==
    /\ reader.pc = "yielded" /\ detector.pc \in {"done", "raised"}
    /\ reader' = [reader EXCEPT !.index = @ + 1, !.pc = "while"]
    /\ detector' = [detector EXCEPT
                       !.pc = "idle",
                       !.results = Append(@, [err |-> detector.pc = "raised",
                                              content |-> detector.content,
                                              extensions |-> detector.extensions])]
    /\ UNCHANGED <<notes, errors, saved, op, prev>>

\* the outer while loop ends
Exhaust ==
    /\ reader.pc = "while" /\ reader.index >= Len(reader.lines)
    /\ reader' = [reader EXCEPT !.pc = "done"]
    /\ UNCHANGED <<notes, errors, saved, op, prev, detector>>

NextRead == ReadLine \/ Absorb \/ Yield \/ Skip \/ Detect \/ Resume \/ Exhaust

SpecRead == InitRead /\ [][NextRead]_vars

\* the generator and the loop are run on: a step that can be taken is taken
SpecReadFair == SpecRead /\ WF_vars(NextRead)

(***************************************************************************)
(* C21: a block opens at a raw line that, stripped, starts with the block  *)
(* delimiter and closes at the first later raw line that, stripped, ends   *)
(* with it.  The scan yields one logical line for the block: the raw lines *)
(* of the block joined by line breaks, without the opening delimiter and   *)
(* without the closing delimiter and with nothing else dropped, whatever   *)
(* blanks surround the delimiters (compared here up to the blanks at the   *)
(* two ends of the logical line); a raw line outside a block yields one    *)
(* logical line, in document order.  Refuted: _read_notes cuts len(blocks) *)
(* characters off the two ends of the unstripped lines, so a blank before  *)
(* the opening delimiter or after the closing one is cut in its place.     *)
(***************************************************************************)
Opens(raw) == StartsWith(Strip(raw), blocks)
Closes(raw) == EndsWith(Strip(raw), blocks)

Closers(lines, i) == {j \in (i + 1)..Len(lines) : Closes(lines[j])}

\* the raw line without the first / the last delimiter in it
CutAt(raw, k) == SubSeq(raw, 1, k - 1) \o From(raw, k - 1 + Len(blocks))
WithoutOpening(raw) == CutAt(raw, Least(Occurrences(raw, blocks, 1)))
WithoutClosing(raw) == CutAt(raw, Greatest(Occurrences(raw, blocks, 1)))

RECURSIVE Joined(_, _, _)
Joined(lines, i, j) ==
    IF i = j THEN WithoutClosing(lines[j])
    ELSE lines[i] \o newline \o Joined(lines, i + 1, j)

\* the block from raw line i to raw line j > i as one logical line
BlockLine(lines, i, j) ==
    WithoutOpening(lines[i]) \o newline \o Joined(lines, i + 1, j)

UnclosedMark == <<"<unclosed>">>

\* the logical lines of the raw lines from i on
RECURSIVE LogicalLines(_, _)
LogicalLines(lines, i) ==
    IF i > Len(lines) THEN <<>>
    ELSE IF lines[i] = <<>> THEN LogicalLines(lines, i + 1)
    ELSE IF ~Opens(lines[i]) THEN <<lines[i]>> \o LogicalLines(lines, i + 1)
    ELSE IF Closers(lines, i) = {} THEN <<UnclosedMark>>
    ELSE <<BlockLine(lines, i, Least(Closers(lines, i)))>>
             \o LogicalLines(lines, Least(Closers(lines, i)) + 1)

AllClosed(logical) == \A n \in 1..Len(logical) : logical[n] # UnclosedMark

StrippedEach(logical) == [n \in 1..Len(logical) |-> Strip(logical[n])]

C21_BlockIsOneLogicalLine ==
    reader.pc = "done" /\ AllClosed(LogicalLines(reader.lines, 1))
        => reader.yielded = StrippedEach(LogicalLines(reader.lines, 1))

(***************************************************************************)
(* C22: an edit at a position that is no valid index of the store          *)
(* (nindex < 0 or nindex >= N) fails and leaves the store as it was.       *)
(* Refuted: with a negative nindex pop(nindex) takes a note from the end   *)
(* of the list, make_note fails, and the except clause puts the note back  *)
(* with insert(nindex, old_note), which for nindex = -1 is the place       *)
(* before the last note that is left.                                      *)
(***************************************************************************)
C22_InvalidEditNoEffect ==
    op.name = "edit" /\ ~(0 <= op.i /\ op.i < Len(prev))
        => op.err # "none" /\ notes = prev

(***************************************************************************)
(* C23: on a store with contiguous nindex values the ancestor boundary of  *)
(* a heading (the nindex of the first later heading of its level or a      *)
(* shallower one, else N) is never greater than its sibling boundary (the  *)
(* nindex of the next heading of its level, else N): order_nindex <=       *)
(* level_nindex in _complete_headings, and the end_nindex the resolver     *)
(* leaves is the ancestor boundary.                                        *)
(***************************************************************************)
LevelNindexOf(ns, h, headings) == LevelNindex(ns, headings, IndexIn(headings, h))

OrderNindexOf(ns, h) == OrderNindex(ns, heading_order(ns), h)

ResolverRan == Succeeded({"init", "insert", "delete", "edit"})

C23_AncestorBoundaryDecides ==
    Contiguous(notes) =>
        \A h \in Headings(notes) :
            /\ AncestorBoundary(notes, h) <= SiblingBoundary(notes, h)
            /\ OrderNindexOf(notes, h) = AncestorBoundary(notes, h)
            /\ LevelNindexOf(notes, h, level_order(notes, notes[h].level))
                   = SiblingBoundary(notes, h)
            /\ ResolverRan => notes[h].end_nindex = AncestorBoundary(notes, h)

C23_Witness ==
    /\ Contiguous(notes) /\ Succeeded({"insert", "delete", "edit"})
    /\ \E h \in Headings(notes) :
          /\ AncestorBoundary(notes, h) < SiblingBoundary(notes, h)
          /\ notes[h].end_nindex = AncestorBoundary(notes, h)

(***************************************************************************)
(* C24: the scan ends on every document, a block that is opened and never  *)
(* closed included (it is absorbed to the end of the document), and the    *)
(* while loop of _detect_extensions ends on every line for every pair of   *)
(* bounds, equal ones included: every turn of the loop that goes on leaves *)
(* the content shorter.                                                    *)
(***************************************************************************)
\* a turn of the while loop after which the loop goes on
LoopTurn == detector.pc = "while" /\ detector'.pc = "while"

Shortens == LoopTurn => Len(detector'.content) < Len(detector.content)

C24_ParsingTerminates ==
    /\ <>(reader.pc = "done" /\ detector.pc = "idle")
    /\ [][Shortens]_vars

C24_Witness ==
    /\ reader.pc = "done" /\ detector.pc = "idle"
    /\ detector.bounds[1] = detector.bounds[2]
    /\ \E n \in 1..Len(detector.results) : detector.results[n].extensions # <<>>
    /\ ~AllClosed(LogicalLines(reader.lines, 1))
    /\ Len(reader.yielded) = Len(detector.results)

====
